---- MODULE Spec2Model ----
(***************************************************************************)
(* A model of logview (src/src/main.rs): the ANSI escape decoder           *)
(* parse_log_line and the App state machine driven by main's event loop.   *)
(*                                                                         *)
(* A Rust String is modelled as a sequence of characters, each character   *)
(* a one-element TLA+ string; the character 0x1B is written "ESC".         *)
(***************************************************************************)
EXTENDS Integers, Sequences, FiniteSets, TLC

\* ------------------------------------------------------------------ bounds

\* Longest search pattern typed in the general specification.
MaxPatLen == 2
\* Largest terminal height the terminal reports.
MaxHeight == 3
\* Largest digit key pressed in the general specification (at most 9).
MaxSlot == 2
\* Longest search pattern typed in the history specification.
HistPatLen == 11
\* Longest pattern on which Backspace is pressed in the history specification.
HistBackLen == 2
\* Longest line handed to the decoder in the decoder specification.
DecodeLen == 5
\* Longest search pattern typed in the key dispatch specification.
KeysPatLen == 2

\* --------------------------------------------------------------- constants

\* saved_patterns.len() >= 10: the capacity of the pattern history.
MaxSaved == 10
\* draw_logs subtracts 2 rows from the terminal height; smaller terminals
\* make that subtraction underflow and are left out.
MinHeight == 2

\* -------------------------------------------------------------- characters

ESC == "ESC"

\* char::is_ascii_alphabetic, on the characters the model uses.
IsAsciiAlphabetic(c) == c \in {"m", "x", "q", "E", "R", "O", "d", "o", "n", "e"}

\* char::is_ascii_digit, on the characters the model uses.
DigitChars == <<"0", "1", "2", "3", "4", "5", "6", "7", "8", "9">>

IsAsciiDigit(c) == \E i \in 1..Len(DigitChars) : DigitChars[i] = c

\* c as u8 - b'0'
DigitValue(c) == (CHOOSE i \in 1..Len(DigitChars) : DigitChars[i] = c) - 1

\* char::is_whitespace, on the characters the model uses.
IsWhitespace(c) == c = " "

\* str::trim().is_empty(): every character is white space.
TrimIsEmpty(line) == \A i \in 1..Len(line) : IsWhitespace(line[i])

\* ------------------------------------------------------------------- style

\* tui::style::Style, reduced to the two fields the decoder sets.
StyleDefault == [fg |-> "None", bold |-> FALSE]

StyleFg(color) == [fg |-> color, bold |-> FALSE]

StyleBold == [fg |-> "None", bold |-> TRUE]

\* Mutant of StyleForCode: a recognized code is merged into the style in
\* force (a colour keeps the bold flag, bold keeps the colour).
StyleForCodeMerging(code, current_style) ==
    CASE code = <<"3", "1">> -> [current_style EXCEPT !.fg = "Red"]
      [] code = <<"3", "2">> -> [current_style EXCEPT !.fg = "Green"]
      [] code = <<"3", "3">> -> [current_style EXCEPT !.fg = "Yellow"]
      [] code = <<"3", "4">> -> [current_style EXCEPT !.fg = "Blue"]
      [] code = <<"3", "5">> -> [current_style EXCEPT !.fg = "Magenta"]
      [] code = <<"3", "6">> -> [current_style EXCEPT !.fg = "Cyan"]
      [] code = <<"1">> -> [current_style EXCEPT !.bold = TRUE]
      [] code = <<"0">> -> StyleDefault
      [] OTHER -> current_style

\* The match on the code string: a recognized code replaces the style, any
\* other code keeps current_style.
StyleForCode(code, current_style) ==
    CASE code = <<"3", "1">> -> StyleFg("Red")
      [] code = <<"3", "2">> -> StyleFg("Green")
      [] code = <<"3", "3">> -> StyleFg("Yellow")
      [] code = <<"3", "4">> -> StyleFg("Blue")
      [] code = <<"3", "5">> -> StyleFg("Magenta")
      [] code = <<"3", "6">> -> StyleFg("Cyan")
      [] code = <<"1">> -> StyleBold
      [] code = <<"0">> -> StyleDefault
      [] OTHER -> current_style

\* Span::styled(text, style)
Span(text, style) == [content |-> text, style |-> style]

\* ----------------------------------------------------------------- decoder

\* Mutant of CodeEnd: the code ends at the first character that is not a
\* digit, whatever it is.
RECURSIVE CodeEndAtNonDigit(_, _)
CodeEndAtNonDigit(line, i) ==
    IF i > Len(line) THEN Len(line) + 1
    ELSE IF ~IsAsciiDigit(line[i]) THEN i
    ELSE CodeEndAtNonDigit(line, i + 1)

\* The inner while loop: the index of the first ASCII-alphabetic character at
\* or after i, or Len(line) + 1 when the iterator runs out first.
RECURSIVE CodeEnd(_, _)
CodeEnd(line, i) ==
    IF i > Len(line) THEN Len(line) + 1
    ELSE IF IsAsciiAlphabetic(line[i]) THEN i
    ELSE CodeEnd(line, i + 1)

\* Mutant of Flush: the span is pushed even when current_text is empty.
FlushAlways(spans, current_text, current_style) ==
    Append(spans, Span(current_text, current_style))

\* if !current_text.is_empty() { spans.push(...) }
Flush(spans, current_text, current_style) ==
    IF current_text # <<>>
    THEN Append(spans, Span(current_text, current_style))
    ELSE spans

\* Mutant of ParseFrom: ESC starts an escape sequence whatever follows it
\* (the peek for "[" is missing).
RECURSIVE ParseFromNoPeek(_, _, _, _, _)
ParseFromNoPeek(line, i, spans, current_text, current_style) ==
    IF i > Len(line)
    THEN Flush(spans, current_text, current_style)
    ELSE IF line[i] = ESC
    THEN LET j == CodeEnd(line, i + 2)
             code == SubSeq(line, i + 2, j - 1)
         IN  ParseFromNoPeek(line, j + 1,
                             Flush(spans, current_text, current_style),
                             <<>>,
                             StyleForCode(code, current_style))
    ELSE ParseFromNoPeek(line, i + 1, spans, Append(current_text, line[i]),
                         current_style)

\* The outer while loop from character i on, and the final flush.
RECURSIVE ParseFrom(_, _, _, _, _)
ParseFrom(line, i, spans, current_text, current_style) ==
    IF i > Len(line)
    THEN Flush(spans, current_text, current_style)
    ELSE IF line[i] = ESC /\ i + 1 <= Len(line) /\ line[i + 1] = "["
    THEN LET j == CodeEnd(line, i + 2)
             code == SubSeq(line, i + 2, j - 1)
         IN  ParseFrom(line, j + 1,
                       Flush(spans, current_text, current_style),
                       <<>>,
                       StyleForCode(code, current_style))
    ELSE ParseFrom(line, i + 1, spans, Append(current_text, line[i]),
                   current_style)

\* Option<LogEntry>
NoEntry == [some |-> FALSE, raw_content |-> <<>>, styled_spans |-> <<>>]

LogEntry(raw, spans) ==
    [some |-> TRUE, raw_content |-> raw, styled_spans |-> spans]

parse_log_line(line) ==
    IF TrimIsEmpty(line) THEN NoEntry
    ELSE LogEntry(line, ParseFrom(line, 1, <<>>, <<>>, StyleDefault))

\* The text of a line as displayed: its spans' contents in order.
RECURSIVE ConcatSpans(_)
ConcatSpans(spans) ==
    IF spans = <<>> THEN <<>>
    ELSE Head(spans).content \o ConcatSpans(Tail(spans))

\* ------------------------------------------------------------------- regex

\* Option<Regex>: a compiled Regex is determined by the pattern it was
\* compiled from.
NoRegex == [some |-> FALSE, pat |-> <<>>]

SomeRegex(pattern) == [some |-> TRUE, pat |-> pattern]

\* Regex::new(pattern).is_ok(), on the characters the model types: every one
\* is a literal except "[", which opens a character class that no typed
\* character closes (there is no "]"), so the pattern fails to compile.
RegexNewOk(pattern) == \A i \in 1..Len(pattern) : pattern[i] # "["

\* Regex::is_match for a compiled pattern of literals: an unanchored search,
\* the pattern occurs somewhere in the text.
IsMatch(pattern, text) ==
    \E i \in 0..(Len(text) - Len(pattern)) :
        \A k \in 1..Len(pattern) : text[i + k] = pattern[k]

\* ------------------------------------------------------------------- files

LinePlain == <<"m">>
LineRed == <<ESC, "[", "3", "1", "m", "x">>
LineBlank == <<" ">>
LineMM == <<"m", "m">>
LineX == <<"x">>
LineBoldMM == <<ESC, "[", "1", "m", "m", "m", ESC, "[", "0", "m">>

\* The log files the viewer is started on.
LogFiles ==
    { <<LinePlain, LineRed, LineBlank, LineMM, LineX, LineBoldMM>>,
      <<LineX, LineX, LineRed, LineX>>,
      <<LineBlank, LineX>> }

\* reader.lines().filter_map(parse_log_line).collect()
LoadLogs(file) ==
    SelectSeq([i \in 1..Len(file) |-> parse_log_line(file[i])],
              LAMBDA e : e.some)

\* ------------------------------------------------------------------- state

VARIABLES
    logs,            \* App.logs
    search_pattern,  \* App.search_pattern
    is_searching,    \* App.is_searching
    search_regex,    \* App.search_regex
    saved_patterns,  \* App.saved_patterns
    scroll,          \* App.scroll
    height,          \* main's local height, read at the top of each iteration
    key,             \* the event read in the last iteration
    pc,              \* main: "start", "opened" after File::open and the
                     \* load, "raw" after enable_raw_mode, "loop" inside
                     \* the loop, "quit" after the break and the return of
                     \* Ok, "failed" after a return of Err by the ? operator;
                     \* "parse" before and "parsed" after a call of parse_log_line
    raw_mode,        \* whether the terminal is in raw mode
    raw_line,        \* the line handed to parse_log_line
    entry            \* what parse_log_line returned for raw_line

app == <<logs, search_pattern, is_searching, search_regex, saved_patterns, scroll>>

vars == <<logs, search_pattern, is_searching, search_regex, saved_patterns,
          scroll, height, key, pc, raw_mode, raw_line, entry>>

\* The terminal heights terminal.size() reports.
Heights == MinHeight..MaxHeight

\* KeyCode values; a character key carries its character.
KeyCode(code) == <<code, "">>

KeyChr(c) == <<"Char", c>>

\* An event that is not Event::Key (a resize, the mouse).
NoKey == <<"NoKey", "">>

\* App::new(logs)
AppNew(l) ==
    /\ logs = l
    /\ search_pattern = <<>>
    /\ is_searching = FALSE
    /\ search_regex = NoRegex
    /\ saved_patterns = <<>>
    /\ scroll = 0

\* usize::saturating_sub
SaturatingSub(a, b) == IF a >= b THEN a - b ELSE 0

Min(a, b) == IF a <= b THEN a ELSE b

\* Mutant of FilteredOf: the pattern is matched against the displayed text,
\* the escape codes stripped.
FilteredOfDisplayed(l, regex) ==
    IF regex.some
    THEN SelectSeq(l, LAMBDA log :
                          IsMatch(regex.pat, ConcatSpans(log.styled_spans)))
    ELSE l

\* App::filtered_logs, of the fields given.
FilteredOf(l, regex) ==
    IF regex.some
    THEN SelectSeq(l, LAMBDA log : IsMatch(regex.pat, log.raw_content))
    ELSE l

filtered_logs == FilteredOf(logs, search_regex)

\* let max_scroll = self.filtered_logs().len().saturating_sub(height)
max_scroll(h) == SaturatingSub(Len(filtered_logs), h)

\* Vec::contains
Contains(seq, x) == \E i \in 1..Len(seq) : seq[i] = x

\* Vec::remove(0)
RemoveFirst(seq) == SubSeq(seq, 2, Len(seq))

\* String::pop
Pop(s) == IF s = <<>> THEN s ELSE SubSeq(s, 1, Len(s) - 1)

\* ------------------------------------------------------------- App methods

\* App::scroll_up
scroll_up ==
    /\ scroll' = IF scroll > 0 THEN scroll - 1 ELSE scroll
    /\ UNCHANGED <<logs, search_pattern, is_searching, search_regex, saved_patterns>>

\* App::scroll_down
scroll_down(h) ==
    /\ scroll' = IF scroll < max_scroll(h) THEN scroll + 1 ELSE scroll
    /\ UNCHANGED <<logs, search_pattern, is_searching, search_regex, saved_patterns>>

\* Mutant of page_up: the plain subtraction, which goes below 0.
page_up_unchecked(h) ==
    /\ scroll' = scroll - h
    /\ UNCHANGED <<logs, search_pattern, is_searching, search_regex, saved_patterns>>

\* App::page_up
page_up(h) ==
    /\ scroll' = SaturatingSub(scroll, h)
    /\ UNCHANGED <<logs, search_pattern, is_searching, search_regex, saved_patterns>>

\* App::page_down
page_down(h) ==
    /\ scroll' = Min(scroll + h, max_scroll(h))
    /\ UNCHANGED <<logs, search_pattern, is_searching, search_regex, saved_patterns>>

\* Mutant of SavedAfterConfirm: the capacity test is > instead of >=.
SavedAfterConfirmLateCap(saved, pattern) ==
    IF ~Contains(saved, pattern)
    THEN Append(IF Len(saved) > MaxSaved THEN RemoveFirst(saved) ELSE saved,
                pattern)
    ELSE saved

\* Mutant of SavedAfterConfirm: the pattern is pushed without the contains
\* test.
SavedAfterConfirmNoContains(saved, pattern) ==
    Append(IF Len(saved) >= MaxSaved THEN RemoveFirst(saved) ELSE saved,
           pattern)

\* The history after a successful confirm of pattern.
SavedAfterConfirm(saved, pattern) ==
    IF ~Contains(saved, pattern)
    THEN Append(IF Len(saved) >= MaxSaved THEN RemoveFirst(saved) ELSE saved,
                pattern)
    ELSE saved

\* Mutant of confirm_search: the pattern is pushed to the history before it
\* is compiled.
confirm_search_saves_first ==
    /\ is_searching' = FALSE
    /\ IF search_pattern # <<>>
       THEN /\ saved_patterns' =
                   SavedAfterConfirm(saved_patterns, search_pattern)
            /\ search_regex' = IF RegexNewOk(search_pattern)
                               THEN SomeRegex(search_pattern)
                               ELSE search_regex
       ELSE UNCHANGED <<search_regex, saved_patterns>>
    /\ UNCHANGED <<logs, search_pattern, scroll>>

\* Mutant of confirm_search: a pattern that fails to compile drops the filter.
confirm_search_drops_filter ==
    /\ is_searching' = FALSE
    /\ IF search_pattern # <<>>
       THEN IF RegexNewOk(search_pattern)
            THEN /\ search_regex' = SomeRegex(search_pattern)
                 /\ saved_patterns' =
                        SavedAfterConfirm(saved_patterns, search_pattern)
            ELSE /\ search_regex' = NoRegex
                 /\ UNCHANGED saved_patterns
       ELSE UNCHANGED <<search_regex, saved_patterns>>
    /\ UNCHANGED <<logs, search_pattern, scroll>>

\* Mutant of confirm_search: the is_empty test is missing.
confirm_search_no_empty_test ==
    /\ is_searching' = FALSE
    /\ IF RegexNewOk(search_pattern)
       THEN /\ search_regex' = SomeRegex(search_pattern)
            /\ saved_patterns' = SavedAfterConfirm(saved_patterns, search_pattern)
       ELSE UNCHANGED <<search_regex, saved_patterns>>
    /\ UNCHANGED <<logs, search_pattern, scroll>>

\* App::confirm_search
confirm_search ==
    /\ is_searching' = FALSE
    /\ IF search_pattern # <<>> /\ RegexNewOk(search_pattern)
       THEN /\ search_regex' = SomeRegex(search_pattern)
            /\ saved_patterns' = SavedAfterConfirm(saved_patterns, search_pattern)
       ELSE UNCHANGED <<search_regex, saved_patterns>>
    /\ UNCHANGED <<logs, search_pattern, scroll>>

\* Mutant of load_pattern: key 0 is not told apart and is out of range.
load_pattern_zero_ignored(n) ==
    /\ IF 1 <= n /\ n <= Len(saved_patterns)
       THEN /\ search_pattern' = saved_patterns[n]
            /\ search_regex' = IF RegexNewOk(saved_patterns[n])
                               THEN SomeRegex(saved_patterns[n])
                               ELSE search_regex
       ELSE UNCHANGED <<search_pattern, search_regex>>
    /\ UNCHANGED <<logs, is_searching, saved_patterns, scroll>>

\* Mutant of load_pattern: slot n indexes the history from 0, saved_patterns[idx].
load_pattern_off_by_one(n) ==
    /\ IF n = 0
       THEN /\ search_pattern' = <<>>
            /\ search_regex' = NoRegex
       ELSE IF n < Len(saved_patterns)
       THEN /\ search_pattern' = saved_patterns[n + 1]
            /\ search_regex' = IF RegexNewOk(saved_patterns[n + 1])
                               THEN SomeRegex(saved_patterns[n + 1])
                               ELSE search_regex
       ELSE UNCHANGED <<search_pattern, search_regex>>
    /\ UNCHANGED <<logs, is_searching, saved_patterns, scroll>>

\* App::load_pattern
load_pattern(n) ==
    /\ IF n = 0
       THEN /\ search_pattern' = <<>>
            /\ search_regex' = NoRegex
       ELSE IF n <= Len(saved_patterns)
       THEN /\ search_pattern' = saved_patterns[n]
            /\ search_regex' = IF RegexNewOk(saved_patterns[n])
                               THEN SomeRegex(saved_patterns[n])
                               ELSE search_regex
       ELSE UNCHANGED <<search_pattern, search_regex>>
    /\ UNCHANGED <<logs, is_searching, saved_patterns, scroll>>

\* Mutant of cancel_search: the pattern typed so far is kept.
cancel_search_keeps_pattern ==
    /\ is_searching' = FALSE
    /\ search_regex' = NoRegex
    /\ UNCHANGED <<logs, search_pattern, saved_patterns, scroll>>

\* Mutant of cancel_search: the filter in force is kept.
cancel_search_keeps_filter ==
    /\ is_searching' = FALSE
    /\ search_pattern' = <<>>
    /\ UNCHANGED <<logs, search_regex, saved_patterns, scroll>>

\* The Esc arm: leave the edit and drop the filter.
cancel_search ==
    /\ is_searching' = FALSE
    /\ search_pattern' = <<>>
    /\ search_regex' = NoRegex
    /\ UNCHANGED <<logs, saved_patterns, scroll>>

\* --------------------------------------------------------- main's event loop

\* One iteration: the terminal height h is read, then the event k.
Iteration(h, k) ==
    /\ pc = "loop"
    /\ height' = h
    /\ key' = k
    /\ UNCHANGED <<raw_mode, raw_line, entry>>

KeyUp(h) ==
    /\ Iteration(h, KeyCode("Up"))
    /\ scroll_up
    /\ pc' = "loop"

KeyDown(h) ==
    /\ Iteration(h, KeyCode("Down"))
    /\ scroll_down(h)
    /\ pc' = "loop"

KeyPageUp(h) ==
    /\ Iteration(h, KeyCode("PageUp"))
    /\ page_up(h)
    /\ pc' = "loop"

KeyPageDown(h) ==
    /\ Iteration(h, KeyCode("PageDown"))
    /\ page_down(h)
    /\ pc' = "loop"

\* Mutant of KeyQuit: the arm has no guard, "q" breaks in the edit mode too.
KeyQuitAnyMode(h) ==
    /\ pc = "loop"
    /\ height' = h
    /\ key' = KeyChr("q")
    /\ raw_mode' = FALSE
    /\ pc' = "quit"
    /\ UNCHANGED <<app, raw_line, entry>>

\* KeyCode::Char('q') if !app.is_searching => break, then disable_raw_mode
\* after the loop and the return of Ok.
KeyQuit(h) ==
    /\ pc = "loop"
    /\ height' = h
    /\ key' = KeyChr("q")
    /\ ~is_searching
    /\ raw_mode' = FALSE
    /\ pc' = "quit"
    /\ UNCHANGED <<app, raw_line, entry>>

\* KeyCode::Char('/') if !app.is_searching
KeySlash(h) ==
    /\ Iteration(h, KeyChr("/"))
    /\ ~is_searching
    /\ is_searching' = TRUE
    /\ pc' = "loop"
    /\ UNCHANGED <<logs, search_pattern, search_regex, saved_patterns, scroll>>

\* KeyCode::Enter if app.is_searching
KeyEnter(h) ==
    /\ Iteration(h, KeyCode("Enter"))
    /\ is_searching
    /\ confirm_search
    /\ pc' = "loop"

\* KeyCode::Char(c) if !app.is_searching && c.is_ascii_digit()
KeyDigit(h, c) ==
    /\ Iteration(h, KeyChr(c))
    /\ ~is_searching
    /\ IsAsciiDigit(c)
    /\ load_pattern(DigitValue(c))
    /\ pc' = "loop"

\* KeyCode::Esc if app.is_searching
KeyEsc(h) ==
    /\ Iteration(h, KeyCode("Esc"))
    /\ is_searching
    /\ cancel_search
    /\ pc' = "loop"

\* KeyCode::Backspace if app.is_searching
KeyBackspace(h) ==
    /\ Iteration(h, KeyCode("Backspace"))
    /\ is_searching
    /\ search_pattern' = Pop(search_pattern)
    /\ pc' = "loop"
    /\ UNCHANGED <<logs, is_searching, search_regex, saved_patterns, scroll>>

\* Whether an earlier arm of the match takes the character c.
TakenByEarlierArm(c) ==
    ~is_searching /\ (c = "q" \/ c = "/" \/ IsAsciiDigit(c))

\* KeyCode::Char(c): the arm every other character key falls to.
KeyChar(h, c) ==
    /\ Iteration(h, KeyChr(c))
    /\ ~TakenByEarlierArm(c)
    /\ IF c = " " /\ ~is_searching
       THEN page_down(h)
       ELSE IF is_searching
       THEN /\ search_pattern' = Append(search_pattern, c)
            /\ UNCHANGED <<logs, is_searching, search_regex, saved_patterns, scroll>>
       ELSE UNCHANGED app
    /\ pc' = "loop"

\* The keys whose guarded arm applies only while searching.
EditOnlyKeys == {KeyCode("Enter"), KeyCode("Esc"), KeyCode("Backspace")}

\* _ => {}: a key no arm takes.
KeyIgnored(h, k) ==
    /\ Iteration(h, k)
    /\ IF k \in EditOnlyKeys THEN ~is_searching ELSE k = KeyCode("F1")
    /\ pc' = "loop"
    /\ UNCHANGED app

\* An event that is not a key: the if-let fails and the screen is redrawn.
OtherEvent(h) ==
    /\ Iteration(h, NoKey)
    /\ pc' = "loop"
    /\ UNCHANGED app

\* draw_logs on a terminal of height h: the entries it turns into list items,
\* filtered_logs().iter().skip(app.scroll).take(size.height - 2), before the
\* padding with empty items.
draw_logs(h) ==
    SubSeq(filtered_logs, scroll + 1, Min(scroll + (h - 2), Len(filtered_logs)))

\* -------------------------------------------------- the general specification

\* The characters typed into the search pattern.
TypedChars == {"m", "["}

\* The digit keys pressed.
DigitKeys == {DigitChars[n + 1] : n \in 0..MaxSlot}

\* The state after loading a file and App::new, before the loop.
Init ==
    /\ \E file \in LogFiles : AppNew(LoadLogs(file))
    /\ height \in Heights
    /\ key = NoKey
    /\ pc = "loop"
    /\ raw_mode = TRUE
    /\ raw_line = <<>>
    /\ entry = NoEntry

\* The terminal changes size between two events only when the event read is
\* the resize event that announces it: a key is handled at the height of the
\* iteration before.  The keys pressed: the characters of TypedChars while
\* the pattern is shorter than MaxPatLen, the digits of DigitKeys, and "q",
\* "/" and the space bar outside the edit mode.
Next ==
    \/ KeyUp(height)
    \/ KeyDown(height)
    \/ KeyPageUp(height)
    \/ KeyPageDown(height)
    \/ KeyQuit(height)
    \/ KeySlash(height)
    \/ KeyEnter(height)
    \/ \E c \in DigitKeys : KeyDigit(height, c)
    \/ KeyEsc(height)
    \/ KeyBackspace(height)
    \/ \E c \in TypedChars :
           Len(search_pattern) < MaxPatLen /\ KeyChar(height, c)
    \/ ~is_searching /\ KeyChar(height, " ")
    \/ \E k \in EditOnlyKeys \cup {KeyCode("F1")} : KeyIgnored(height, k)
    \/ \E h \in Heights : OtherEvent(h)

Spec == Init /\ [][Next]_vars

\* -------------------------------------------------- the history specification

\* A session that fills the history past its capacity: the user opens the
\* edit, types "m", confirms, and deletes only from short patterns; the
\* terminal is not resized.
HistFile == <<LinePlain, LineMM>>

InitHist ==
    /\ AppNew(LoadLogs(HistFile))
    /\ height = MinHeight
    /\ key = NoKey
    /\ pc = "loop"
    /\ raw_mode = TRUE
    /\ raw_line = <<>>
    /\ entry = NoEntry

NextHist ==
    \/ KeySlash(height)
    \/ KeyEnter(height)
    \/ Len(search_pattern) < HistPatLen /\ KeyChar(height, "m")
    \/ Len(search_pattern) <= HistBackLen /\ KeyBackspace(height)

SpecHist == InitHist /\ [][NextHist]_vars

\* -------------------------------------------------- the decoder specification

\* The characters of the lines handed to the decoder.
DecodeChars == {ESC, "[", "1", "3", "m", "x", " "}

BoundedSeq(S, n) == UNION {[1..k -> S] : k \in 0..n}

\* "\x1B[31mERROR\x1B[0m done"
LineErrorDone ==
    <<ESC, "[", "3", "1", "m", "E", "R", "R", "O", "R",
      ESC, "[", "0", "m", " ", "d", "o", "n", "e">>

\* "\x1B[31m\x1B[1mx\x1B[me\x1B[0mo"
LineRedBoldReset ==
    <<ESC, "[", "3", "1", "m", ESC, "[", "1", "m", "x",
      ESC, "[", "m", "e", ESC, "[", "0", "m", "o">>

\* "\x1B[31mx\x1B[1;31me\x1B[99mo"
LineCodesNotMatched ==
    <<ESC, "[", "3", "1", "m", "x", ESC, "[", "1", ";", "3", "1", "m", "e",
      ESC, "[", "9", "9", "m", "o">>

\* "\x1B[32mx\x1B[33me\x1B[34mo\x1B[35mn\x1B[36md"
LineColours ==
    <<ESC, "[", "3", "2", "m", "x", ESC, "[", "3", "3", "m", "e",
      ESC, "[", "3", "4", "m", "o", ESC, "[", "3", "5", "m", "n",
      ESC, "[", "3", "6", "m", "d">>

DecodeSamples ==
    {LineErrorDone, LineBoldMM, LineRedBoldReset, LineCodesNotMatched,
     LineColours}

DecodeLines == BoundedSeq(DecodeChars, DecodeLen) \cup DecodeSamples

InitDecode ==
    /\ raw_line \in DecodeLines
    /\ entry = NoEntry
    /\ pc = "parse"
    /\ raw_mode = FALSE
    /\ AppNew(<<>>)
    /\ height = MinHeight
    /\ key = NoKey

\* let entry = parse_log_line(&line)
Decode ==
    /\ pc = "parse"
    /\ entry' = parse_log_line(raw_line)
    /\ pc' = "parsed"
    /\ UNCHANGED <<app, height, key, raw_mode, raw_line>>

NextDecode == Decode

SpecDecode == InitDecode /\ [][NextDecode]_vars

\* --------------------------------------------- the key dispatch specification

\* A session in which every kind of character key is pressed in both modes.
KeysFile == <<LineX, LinePlain, LineMM, LineX>>

\* The character keys pressed: the ones an arm treats specially outside the
\* edit mode ("q", "/", a digit, the space bar) and an ordinary one.
KeysChars == {"q", "/", " ", "1", "m"}

\* The patterns the user confirms.
KeysConfirmed == {<<>>, <<"m">>, <<"q">>}

InitKeys ==
    /\ AppNew(LoadLogs(KeysFile))
    /\ height = MinHeight
    /\ key = NoKey
    /\ pc = "loop"
    /\ raw_mode = TRUE
    /\ raw_line = <<>>
    /\ entry = NoEntry

\* The terminal is not resized; in the edit mode characters are typed while
\* the pattern is shorter than KeysPatLen.
NextKeys ==
    \/ KeyQuit(height)
    \/ KeySlash(height)
    \/ search_pattern \in KeysConfirmed /\ KeyEnter(height)
    \/ \E c \in DigitKeys : KeyDigit(height, c)
    \/ KeyEsc(height)
    \/ KeyBackspace(height)
    \/ \E c \in KeysChars :
           /\ is_searching => Len(search_pattern) < KeysPatLen
           /\ KeyChar(height, c)
    \/ \E k \in EditOnlyKeys : KeyIgnored(height, k)

SpecKeys == InitKeys /\ [][NextKeys]_vars

\* ----------------------------------------------- the specification of main

\* The state when main starts: nothing is loaded, the terminal is cooked.
InitMain ==
    /\ AppNew(<<>>)
    /\ height = MinHeight
    /\ key = NoKey
    /\ pc = "start"
    /\ raw_mode = FALSE
    /\ raw_line = <<>>
    /\ entry = NoEntry

\* File::open(&args.log_file)? succeeds and the lines are parsed into logs.
OpenAndLoad ==
    /\ pc = "start"
    /\ \E file \in LogFiles : logs' = LoadLogs(file)
    /\ pc' = "opened"
    /\ UNCHANGED <<search_pattern, is_searching, search_regex, saved_patterns,
                   scroll, height, key, raw_mode, raw_line, entry>>

\* File::open(&args.log_file)? returns the error.
OpenFails ==
    /\ pc = "start"
    /\ pc' = "failed"
    /\ UNCHANGED <<app, height, key, raw_mode, raw_line, entry>>

\* enable_raw_mode()? succeeds.
EnableRawMode ==
    /\ pc = "opened"
    /\ raw_mode' = TRUE
    /\ pc' = "raw"
    /\ UNCHANGED <<app, height, key, raw_line, entry>>

\* enable_raw_mode()? returns the error: raw mode was not entered.
EnableRawModeFails ==
    /\ pc = "opened"
    /\ pc' = "failed"
    /\ UNCHANGED <<app, height, key, raw_mode, raw_line, entry>>

\* execute!(..)?, Terminal::new(backend)?, terminal.clear()?, App::new(logs)
\* and the first terminal.draw(..)? all succeed, on a terminal of height h.
SetupTerminal(h) ==
    /\ pc = "raw"
    /\ height' = h
    /\ pc' = "loop"
    /\ UNCHANGED <<app, key, raw_mode, raw_line, entry>>

\* One of execute!(..)?, Terminal::new(backend)?, terminal.clear()? and the
\* first terminal.draw(..)? returns the error.
SetupFails ==
    /\ pc = "raw"
    /\ pc' = "failed"
    /\ UNCHANGED <<app, height, key, raw_mode, raw_line, entry>>

\* terminal.size()?, event::read()? or terminal.draw(..)? returns the error
\* inside the loop: main returns it at once.
IoErrorInLoop ==
    /\ pc = "loop"
    /\ pc' = "failed"
    /\ UNCHANGED <<app, height, key, raw_mode, raw_line, entry>>

\* A run of main: the startup, then a session of scroll keys, "q" and resizes,
\* with an I/O error possible at every step.
NextMain ==
    \/ OpenAndLoad
    \/ OpenFails
    \/ EnableRawMode
    \/ EnableRawModeFails
    \/ \E h \in Heights : SetupTerminal(h)
    \/ SetupFails
    \/ KeyUp(height)
    \/ KeyDown(height)
    \/ KeyPageUp(height)
    \/ KeyPageDown(height)
    \/ KeyQuit(height)
    \/ \E h \in Heights : OtherEvent(h)
    \/ IoErrorInLoop

SpecMain == InitMain /\ [][NextMain]_vars

\* ------------------------------------------------------------------ claims

\* The event loop handled the key code k in the step just taken, having read
\* it while the edit mode was as the state before the step has it.
Confirmed == key' = KeyCode("Enter") /\ is_searching

Cancelled == key' = KeyCode("Esc") /\ is_searching

Recalled(n) == key' = KeyChr(DigitChars[n + 1]) /\ ~is_searching

\* Regex::new(&self.search_pattern) succeeds on a non-empty pattern.
Compiles == search_pattern # <<>> /\ RegexNewOk(search_pattern)

ScrollInRange == 0 <= scroll /\ scroll <= max_scroll(height)

\* C1: scroll stays within 0..max(0, filteredCount - height) under every
\* scroll and filter operation: no operation performed at an unchanged
\* viewport height takes scroll from inside that range to outside it (with
\* scroll 0 at start, this is the claim's invariant at a fixed height).
C1_ScrollStaysInRange ==
    [][(height' = height /\ ScrollInRange) => ScrollInRange']_vars

\* C3: confirming a non-empty pattern that does not compile leaves the edit
\* mode, leaves search_regex and saved_patterns as they were, and the loop
\* goes on.
C3_MalformedConfirm ==
    [][(Confirmed /\ search_pattern # <<>> /\ ~RegexNewOk(search_pattern))
        => /\ is_searching' = FALSE
           /\ search_regex' = search_regex
           /\ saved_patterns' = saved_patterns
           /\ pc' = "loop"]_vars

\* A malformed pattern was confirmed while a filter was active, and the
\* filter is still there.
C3_Witness ==
    /\ key = KeyCode("Enter")
    /\ ~is_searching
    /\ search_pattern # <<>>
    /\ ~RegexNewOk(search_pattern)
    /\ search_regex.some
    /\ saved_patterns # <<>>
    /\ pc = "loop"

\* C4: confirming an empty pattern leaves the edit mode and leaves
\* search_regex and saved_patterns as they were, and the empty string is
\* never an entry of saved_patterns.
C4_EmptyConfirm ==
    /\ [](~Contains(saved_patterns, <<>>))
    /\ [][(Confirmed /\ search_pattern = <<>>)
            => /\ is_searching' = FALSE
               /\ search_regex' = search_regex
               /\ saved_patterns' = saved_patterns]_vars

\* An empty pattern was confirmed (or the edit left) while a filter confirmed
\* earlier is still applied.
C4_Witness ==
    /\ key = KeyCode("Enter")
    /\ ~is_searching
    /\ search_pattern = <<>>
    /\ search_regex.some
    /\ Contains(saved_patterns, search_regex.pat)

\* The indices of the lines the filter in force lets through.
MatchingIndices ==
    {i \in 1..Len(logs) :
        search_regex.some => IsMatch(search_regex.pat, logs[i].raw_content)}

\* The k-th smallest element of the set S of numbers.
NthOf(S, k) == CHOOSE i \in S : Cardinality({j \in S : j <= i}) = k

\* C5: filtered_logs is all of logs when there is no filter, and otherwise
\* the lines whose raw content matches, each once, in file order.
C5_FilteredView ==
    /\ ~search_regex.some => filtered_logs = logs
    /\ Len(filtered_logs) = Cardinality(MatchingIndices)
    /\ \A k \in 1..Len(filtered_logs) :
           filtered_logs[k] = logs[NthOf(MatchingIndices, k)]

\* A filter is in force that lets a line through only for the characters of
\* its escape codes, and holds another line back.
C5_Witness ==
    /\ search_regex.some
    /\ \E i \in MatchingIndices :
           ~IsMatch(search_regex.pat, ConcatSpans(logs[i].styled_spans))
    /\ \E i \in 1..Len(logs) : i \notin MatchingIndices
    /\ Len(filtered_logs) >= 2

\* C6: digit 0 outside the edit mode clears search_pattern and search_regex,
\* whatever saved_patterns holds, and leaves saved_patterns as it was; the
\* filtered view is then every line.
C6_RecallZero ==
    [][Recalled(0)
        => /\ search_pattern' = <<>>
           /\ search_regex' = NoRegex
           /\ saved_patterns' = saved_patterns
           /\ filtered_logs' = logs]_vars

\* Slot 0 was recalled with patterns saved, and no filter is left.
C6_Witness ==
    /\ key = KeyChr("0")
    /\ ~is_searching
    /\ Len(saved_patterns) >= 2
    /\ search_pattern = <<>>
    /\ ~search_regex.some
    /\ Len(filtered_logs) > 2

\* C7: digit n in 1..9 outside the edit mode loads saved_patterns[n] into
\* search_pattern and its compilation into search_regex when the history has
\* that many entries, leaving the history as it was, and otherwise changes no
\* field of App.
C7_RecallSlot ==
    [][\A n \in 1..9 :
         Recalled(n)
           => IF n <= Len(saved_patterns)
              THEN /\ search_pattern' = saved_patterns[n]
                   /\ search_regex' = SomeRegex(saved_patterns[n])
                   /\ saved_patterns' = saved_patterns
              ELSE UNCHANGED app]_vars

\* Slot 2 of a history of two different patterns was recalled.
C7_Witness ==
    /\ key = KeyChr("2")
    /\ ~is_searching
    /\ Len(saved_patterns) >= 2
    /\ search_pattern = saved_patterns[2]
    /\ search_regex = SomeRegex(saved_patterns[2])
    /\ saved_patterns[1] # saved_patterns[2]

\* C8: Esc in the edit mode leaves the edit mode, empties search_pattern and
\* clears search_regex, and leaves saved_patterns and logs as they were.
C8_Cancel ==
    [][Cancelled
        => /\ is_searching' = FALSE
           /\ search_pattern' = <<>>
           /\ search_regex' = NoRegex
           /\ saved_patterns' = saved_patterns
           /\ logs' = logs]_vars

\* An edit was cancelled after patterns had been confirmed: no filter is
\* left and the history is still there.
C8_Witness ==
    /\ key = KeyCode("Esc")
    /\ ~is_searching
    /\ search_pattern = <<>>
    /\ ~search_regex.some
    /\ saved_patterns # <<>>
    /\ logs # <<>>

\* C2: saved_patterns never holds more than 10 entries, and a successful
\* confirm of a pattern that is not in a full history removes exactly the
\* entry at index 0, keeps the other 9 in their order and puts the new
\* pattern last.
C2_HistoryCap ==
    /\ [](Len(saved_patterns) <= MaxSaved)
    /\ [][(Confirmed /\ Compiles /\ ~Contains(saved_patterns, search_pattern)
             /\ Len(saved_patterns) = MaxSaved)
            => /\ Len(saved_patterns') = MaxSaved
               /\ \A i \in 1..(MaxSaved - 1) :
                      saved_patterns'[i] = saved_patterns[i + 1]
               /\ saved_patterns'[MaxSaved] = search_pattern]_vars

\* Eleven patterns, of 1 to 11 characters, were confirmed in that order: the
\* first is gone and the other ten remain in confirmation order.
C2_Witness ==
    /\ key = KeyCode("Enter")
    /\ ~is_searching
    /\ Len(saved_patterns) = MaxSaved
    /\ \A i \in 1..MaxSaved : Len(saved_patterns[i]) = i + 1
    /\ search_pattern = saved_patterns[MaxSaved]
    /\ search_regex = SomeRegex(search_pattern)

\* No string is an entry of saved_patterns twice.
NoDuplicates ==
    \A i, j \in 1..Len(saved_patterns) :
        saved_patterns[i] = saved_patterns[j] => i = j

\* C9, as claimed: saved_patterns holds no string twice, and after every
\* successful confirm of a pattern that pattern is its last entry.
C9_MostRecentLast ==
    /\ []NoDuplicates
    /\ [][(Confirmed /\ Compiles)
            => saved_patterns'[Len(saved_patterns')] = search_pattern]_vars

\* C9, amended: saved_patterns holds no string twice; a successful confirm of
\* a pattern it does not hold puts that pattern last, after the entries it
\* held (less the one at index 0 when it was full), and a successful confirm
\* of a pattern it holds leaves it exactly as it was.
C9_InsertionOrder ==
    /\ []NoDuplicates
    /\ [][(Confirmed /\ Compiles)
            => IF Contains(saved_patterns, search_pattern)
               THEN saved_patterns' = saved_patterns
               ELSE /\ saved_patterns' # <<>>
                    /\ saved_patterns'[Len(saved_patterns')] = search_pattern
                    /\ SubSeq(saved_patterns', 1, Len(saved_patterns') - 1)
                         = IF Len(saved_patterns) < MaxSaved
                           THEN saved_patterns
                           ELSE RemoveFirst(saved_patterns)]_vars

\* A pattern the history holds was confirmed again: it still sits at index 0,
\* the next to be evicted, and is not the last entry.
C9_Witness ==
    /\ key = KeyCode("Enter")
    /\ ~is_searching
    /\ search_regex = SomeRegex(search_pattern)
    /\ Len(saved_patterns) >= 2
    /\ saved_patterns[1] = search_pattern
    /\ saved_patterns[Len(saved_patterns)] # search_pattern

\* Whether an escape sequence starts at s: ESC "[" there, and s does not lie
\* within an escape sequence that starts further left.
RECURSIVE EscStart(_, _)
EscStart(text, s) ==
    /\ s + 1 <= Len(text)
    /\ text[s] = ESC
    /\ text[s + 1] = "["
    /\ ~\E t \in 1..(s - 1) :
           /\ EscStart(text, t)
           /\ \A u \in (t + 2)..(s - 1) : ~IsAsciiAlphabetic(text[u])

\* Whether character i belongs to an escape sequence: one starts at some s <= i
\* and no ASCII-alphabetic character ends it before i.
InEscape(text, i) ==
    \E s \in 1..i :
        /\ EscStart(text, s)
        /\ \A u \in (s + 2)..(i - 1) : ~IsAsciiAlphabetic(text[u])

\* The text with the characters of its escape sequences removed.
Stripped(text) ==
    LET keep == {i \in 1..Len(text) : ~InEscape(text, i)}
    IN  [k \in 1..Cardinality(keep) |-> text[NthOf(keep, k)]]

\* C10: for a line that is not blank, the contents of the decoded spans, in
\* order, are the line with every escape sequence removed.
C10_TextIsStrippedLine ==
    (pc = "parsed" /\ ~TrimIsEmpty(raw_line))
        => /\ entry.some
           /\ entry.raw_content = raw_line
           /\ ConcatSpans(entry.styled_spans) = Stripped(raw_line)

\* A line was decoded that has text, an escape sequence with a code that is
\* not recognized, a lone ESC and an escape sequence that does not end.
C10_Witness ==
    /\ pc = "parsed"
    /\ raw_line = <<"x", ESC, ESC, "[", " ">>
    /\ ConcatSpans(entry.styled_spans) = <<"x", ESC>>


\* Whether ESC is followed by "[" somewhere in the text.
HasEscapePair(text) ==
    \E i \in 1..(Len(text) - 1) : text[i] = ESC /\ text[i + 1] = "["

\* C11: a line that is not blank and holds no ESC "[" pair, a lone ESC
\* included, decodes to exactly one span, of the default style, whose
\* content is the whole line.
C11_PlainLineOneSpan ==
    (pc = "parsed" /\ ~TrimIsEmpty(raw_line) /\ ~HasEscapePair(raw_line))
        => /\ entry.some
           /\ entry.styled_spans = <<Span(raw_line, StyleDefault)>>

\* A line with a lone ESC before a letter and a lone ESC at its end was
\* decoded to one span.
C11_Witness ==
    /\ pc = "parsed"
    /\ raw_line = <<"x", ESC, "m", "[", ESC>>
    /\ Len(entry.styled_spans) = 1
    /\ entry.styled_spans[1].content = raw_line


\* The recognized codes and the style each stands for.
CodeTable ==
    {<<(<<"3", "1">>), [fg |-> "Red", bold |-> FALSE]>>,
     <<(<<"3", "2">>), [fg |-> "Green", bold |-> FALSE]>>,
     <<(<<"3", "3">>), [fg |-> "Yellow", bold |-> FALSE]>>,
     <<(<<"3", "4">>), [fg |-> "Blue", bold |-> FALSE]>>,
     <<(<<"3", "5">>), [fg |-> "Magenta", bold |-> FALSE]>>,
     <<(<<"3", "6">>), [fg |-> "Cyan", bold |-> FALSE]>>,
     <<(<<"1">>), [fg |-> "None", bold |-> TRUE]>>,
     <<(<<"0">>), [fg |-> "None", bold |-> FALSE]>>}

Recognized(code) == \E p \in CodeTable : p[1] = code

StyleOfCode(code) == (CHOOSE p \in CodeTable : p[1] = code)[2]

\* The code of the escape sequence that starts at s: the characters after
\* ESC "[" up to the first ASCII-alphabetic character or the end of the text.
CodeAt(text, s) ==
    LET e == CHOOSE u \in (s + 2)..(Len(text) + 1) :
                 /\ u = Len(text) + 1 \/ IsAsciiAlphabetic(text[u])
                 /\ \A v \in (s + 2)..(u - 1) : ~IsAsciiAlphabetic(text[v])
    IN  SubSeq(text, s + 2, e - 1)

\* The style in force at character i: that of the last recognized code among
\* the escape sequences that start before i, the default style if none.
StyleAt(text, i) ==
    LET R == {s \in 1..(i - 1) :
                 EscStart(text, s) /\ Recognized(CodeAt(text, s))}
    IN  IF R = {} THEN [fg |-> "None", bold |-> FALSE]
        ELSE StyleOfCode(CodeAt(text, CHOOSE s \in R : \A t \in R : t <= s))

\* Where the runs of characters outside escape sequences start.
RunStarts(text) ==
    {i \in 1..Len(text) :
        ~InEscape(text, i) /\ (i = 1 \/ InEscape(text, i - 1))}

\* C12: a recognized code (31..36, 1, 0) replaces the running style, any
\* other code leaves it as it was, and each span carries the style of the
\* last recognized code before its text (the default style if there is none).
C12_StyleOfLastCode ==
    (pc = "parsed" /\ entry.some)
        => /\ Len(entry.styled_spans) = Cardinality(RunStarts(raw_line))
           /\ \A k \in 1..Len(entry.styled_spans) :
                  entry.styled_spans[k].style
                      = StyleAt(raw_line, NthOf(RunStarts(raw_line), k))

\* Code 1 after code 31 gave bold without colour, the empty code kept it, and
\* code 0 gave the default style.
C12_Witness ==
    /\ pc = "parsed"
    /\ raw_line = LineRedBoldReset
    /\ entry.styled_spans
           = <<[content |-> <<"x">>, style |-> [fg |-> "None", bold |-> TRUE]],
               [content |-> <<"e">>, style |-> [fg |-> "None", bold |-> TRUE]],
               [content |-> <<"o">>,
                style |-> [fg |-> "None", bold |-> FALSE]]>>


\* The last character of the run of characters outside escape sequences that
\* starts at i.
RunEnd(text, i) ==
    CHOOSE e \in i..Len(text) :
        /\ \A u \in i..e : ~InEscape(text, u)
        /\ e = Len(text) \/ InEscape(text, e + 1)

\* C17: the spans are the maximal runs of text between escape sequences, in
\* left-to-right order, each with the style in force just before the escape
\* sequence that ends it (or at the end of the line); no span is empty, so
\* consecutive, leading and trailing escape sequences emit nothing, and
\* ESC[31m ERROR ESC[0m " done" gives [("ERROR", red), (" done", default)].
C17_FlushBeforeStyleChange ==
    (pc = "parsed" /\ entry.some)
        => LET spans == entry.styled_spans
               starts == RunStarts(raw_line)
           IN  /\ \A k \in 1..Len(spans) : spans[k].content # <<>>
               /\ Len(spans) = Cardinality(starts)
               /\ \A k \in 1..Len(spans) :
                      LET i == NthOf(starts, k)
                          e == RunEnd(raw_line, i)
                      IN  /\ spans[k].content = SubSeq(raw_line, i, e)
                          /\ spans[k].style = StyleAt(raw_line, e + 1)
               /\ raw_line = LineErrorDone
                      => spans = <<[content |-> <<"E", "R", "R", "O", "R">>,
                                    style |-> [fg |-> "Red", bold |-> FALSE]],
                                   [content |-> <<" ", "d", "o", "n", "e">>,
                                    style |-> [fg |-> "None",
                                               bold |-> FALSE]]>>

\* The line of the example was decoded: its leading escape sequence emitted
\* nothing and there are two spans.
C17_Witness ==
    /\ pc = "parsed"
    /\ raw_line = LineErrorDone
    /\ Len(entry.styled_spans) = 2
    /\ entry.styled_spans[1].content = <<"E", "R", "R", "O", "R">>


\* C13: raw mode is on throughout the event loop and is released on every
\* path that leaves the loop, the break on "q" as well as the return of an
\* I/O error from reading the size, reading an event or drawing.
C13_RawModeReleased ==
    /\ [](pc = "loop" => raw_mode)
    /\ [][(pc = "loop" /\ pc' # "loop") => ~raw_mode']_vars


\* C14: from any reachable state, Down sets scroll to
\* min(scroll + 1, max(0, filteredCount - h)) and PageDown sets it to
\* min(scroll + h, max(0, filteredCount - h)), so that scroll is at most
\* max(0, filteredCount - h) after either, also when the filter was narrowed
\* since the last scroll.
C14_DownClamps ==
    [][/\ key' = KeyCode("Down")
           => /\ scroll' = Min(scroll + 1, max_scroll(height'))
              /\ scroll' <= max_scroll(height')
       /\ key' = KeyCode("PageDown")
           => /\ scroll' = Min(scroll + height', max_scroll(height'))
              /\ scroll' <= max_scroll(height')]_vars


\* max(0, n)
FloorAtZero(n) == IF n > 0 THEN n ELSE 0

\* C15: Up sets scroll to max(0, scroll - 1) and PageUp sets it to
\* max(0, scroll - h); scroll never goes below 0, and neither key changes
\* search_pattern, is_searching, search_regex, saved_patterns or logs.
C15_UpFloorsAtZero ==
    /\ [](scroll >= 0)
    /\ [][/\ key' = KeyCode("Up")
              => /\ scroll' = FloorAtZero(scroll - 1)
                 /\ UNCHANGED <<logs, search_pattern, is_searching,
                                search_regex, saved_patterns>>
          /\ key' = KeyCode("PageUp")
              => /\ scroll' = FloorAtZero(scroll - height')
                 /\ UNCHANGED <<logs, search_pattern, is_searching,
                                search_regex, saved_patterns>>]_vars

\* PageUp was pressed in a view longer than the screen and with a filter
\* active, and scroll is at the floor.
C15_Witness ==
    /\ key = KeyCode("PageUp")
    /\ scroll = 0
    /\ max_scroll(height) > 0
    /\ search_pattern # <<>>


C19_LastLineOnScreen ==
    (/\ pc = "loop"
     /\ key \in {KeyCode("Down"), KeyCode("PageDown")}
     /\ scroll = max_scroll(height)
     /\ height - 2 >= 1
     /\ Len(filtered_logs) > height - 2)
        => /\ draw_logs(height) # <<>>
           /\ draw_logs(height)[Len(draw_logs(height))]
                  = filtered_logs[Len(filtered_logs)]
           /\ scroll + Len(draw_logs(height)) = Len(filtered_logs)


\* C20 as stated: outside the edit mode search_pattern is the text of the
\* filter in force, that is, search_pattern is empty exactly when
\* search_regex is None, and otherwise search_regex is the compilation of
\* search_pattern.
C20_PatternIsFilterText ==
    ~is_searching
        => /\ (search_pattern = <<>>) <=> ~search_regex.some
           /\ search_regex.some => search_regex = SomeRegex(search_pattern)

\* C20 as amended: outside the edit mode, a search_pattern that is not empty
\* and compiles is the pattern search_regex was compiled from; a filter in
\* force with another text occurs only with a search_pattern that is empty
\* or does not compile.
C20_ValidPatternIsFilterText ==
    /\ (~is_searching /\ Compiles)
           => search_regex = SomeRegex(search_pattern)
    /\ (~is_searching /\ search_regex.some
                      /\ search_regex.pat # search_pattern)
           => (search_pattern = <<>> \/ ~RegexNewOk(search_pattern))

\* A pattern was confirmed after an earlier one, with both in the history,
\* and it is the filter in force.
C20_Witness ==
    /\ ~is_searching
    /\ key = KeyCode("Enter")
    /\ Compiles
    /\ search_regex = SomeRegex(search_pattern)
    /\ Len(saved_patterns) = 2
    /\ saved_patterns[2] = search_pattern


\* The printable character keys.
CharKeys == {KeyChr(c) : c \in KeysChars \cup {d : d \in DigitKeys}}

\* C16: in the edit mode every character key, "q", "/", digits and the space
\* bar included, appends its character to search_pattern and does nothing
\* else (no quit, no recall, no page down); outside the edit mode no key
\* appends to or deletes from search_pattern, ordinary characters, Backspace,
\* Enter and Esc leave the whole state as it is, and a digit recalls its
\* history slot.
C16_DispatchByMode ==
    [][/\ (is_searching /\ key' \in CharKeys)
              => /\ search_pattern' = Append(search_pattern, key'[2])
                 /\ pc' = "loop"
                 /\ UNCHANGED <<logs, is_searching, search_regex,
                                saved_patterns, scroll>>
       /\ (~is_searching /\ ~(key' \in CharKeys /\ IsAsciiDigit(key'[2])))
              => search_pattern' = search_pattern
       /\ (~is_searching /\ key' \in {KeyChr("m")} \cup EditOnlyKeys)
              => UNCHANGED app /\ pc' = "loop"
       /\ (~is_searching /\ key' \in CharKeys /\ IsAsciiDigit(key'[2]))
              => LET n == DigitValue(key'[2])
                 IN  /\ search_pattern'
                            = IF n = 0 THEN <<>>
                              ELSE IF n <= Len(saved_patterns)
                              THEN saved_patterns[n]
                              ELSE search_pattern
                     /\ UNCHANGED <<logs, is_searching, saved_patterns,
                                    scroll>>
                     /\ pc' = "loop"]_vars

\* "q" and a digit were typed in the edit mode while a filter was in force
\* and the history had a slot 1: both are in the pattern, the viewer runs on
\* and the filter is as before.
C16_Witness ==
    /\ is_searching
    /\ key = KeyChr("1")
    /\ search_pattern = <<"q", "1">>
    /\ saved_patterns = <<(<<"m">>)>>
    /\ search_regex = SomeRegex(<<"m">>)
    /\ pc = "loop"

====
